---- MODULE Spec2Model ----
(***************************************************************************)
(* Model of rmp-serde/src/config.rs: the SerializerConfig hook set, the    *)
(* DefaultConfig leaf and the StructMapConfig, StructTupleConfig,          *)
(* HumanReadableConfig, BinaryConfig and ExtConfig wrappers.               *)
(*                                                                         *)
(* A configuration type is a sequence of wrapper names, outermost first;   *)
(* the empty sequence is DefaultConfig.  Head(C) is the wrapper and        *)
(* Tail(C) the type parameter C of that wrapper.                           *)
(*                                                                         *)
(* A serializer is a record [sink, failAt, sinkErr, attempts]: the tokens  *)
(* the underlying writer has accepted, the sink length at which the writer *)
(* refuses one write (-1: it refuses none), the error it then raises, and  *)
(* the number of writes the current hook call has attempted.  The refusal  *)
(* is transient, so that a write attempted after a failure would be        *)
(* accepted and seen in the sink.  A deserializer is a record [cursor].    *)
(***************************************************************************)
EXTENDS Integers, Sequences, FiniteSets, TLC

VARIABLES config, op, ser, der, call, ret

vars == <<config, op, ser, der, call, ret>>

\* ---- bounds ----
MaxDepth == 2
MaxSink == 2
MaxCursor == 2

\* ---- widths: an unsigned integer is a big-endian sequence of 16-bit limbs ----
\* usize on a 64-bit target is four limbs, u32 is two
UsizeLimbs == 4
U32Limbs == 2

\* ---- input domains ----
\* 2, 2^32 - 1, 2^32 + 2 and 2^64 - 1
Lens == {<<0, 0, 0, 2>>, <<0, 0, 65535, 65535>>, <<0, 1, 0, 2>>, <<65535, 65535, 65535, 65535>>}
Keys == {"a"}
Values == {7}
VariantIndexes == {0, 1}
VariantNames == {"A", "B"}
ExtTags == {5}
SinkErrors == {"EIO", "EFULL"}
DecodeErrors == {"EOF", "BADTYPE"}
ExtMarkers == {"FixExt1", "FixExt2", "FixExt4", "FixExt8", "FixExt16", "Ext8", "Ext16", "Ext32"}
OtherMarkers == {"FixStr", "Array16", "FixMap", "Null"}
Markers == ExtMarkers \cup OtherMarkers

\* ---- the underlying writer and the rmp/serde primitives the hooks call ----
Tok(t, cnt, n, s) == [t |-> t, cnt |-> cnt, n |-> n, s |-> s]

Ok(w) == [ser |-> w, ok |-> TRUE, err |-> "none"]
Err(w, e) == [ser |-> w, ok |-> FALSE, err |-> e]

\* one write on the underlying writer (ser.get_mut()): accepted, or refused with the writer's error
SinkWrite(w, tok) ==
  IF Len(w.sink) # w.failAt
    THEN Ok([w EXCEPT !.sink = Append(@, tok), !.attempts = @ + 1])
    ELSE Err([w EXCEPT !.attempts = @ + 1, !.failAt = -1], w.sinkErr)

\* len as u32: the low 32 bits of the usize
AsU32(len) == SubSeq(len, UsizeLimbs - U32Limbs + 1, UsizeLimbs)

\* a u32 read back as a usize (zero extension), to compare a header count with a length
U32AsUsize(n) == [i \in 1..(UsizeLimbs - U32Limbs) |-> 0] \o n

NoCount == [i \in 1..U32Limbs |-> 0]

write_array_len(w, n) == SinkWrite(w, Tok("array", n, 0, ""))
write_map_len(w, n) == SinkWrite(w, Tok("map", n, 0, ""))
write_str(w, s) == SinkWrite(w, Tok("str", NoCount, 0, s))
serialize_str(w, s) == SinkWrite(w, Tok("str", NoCount, 0, s))
serialize_value(w, v) == SinkWrite(w, Tok("value", NoCount, v, ""))
serialize_ext(w, e) == SinkWrite(w, Tok("ext", NoCount, e, ""))

\* ---- hook dispatch on the configuration type ----
RECURSIVE write_struct_len(_, _, _)
RECURSIVE write_struct_field(_, _, _, _)
RECURSIVE write_variant_ident(_, _, _, _)
RECURSIVE is_human_readable(_)
RECURSIVE write_ext(_, _, _)
RECURSIVE try_read_ext(_, _, _, _)

\* ---- sealed::SerializerConfig defaults ----
\* the default taken for an envelope writer
Sealed_write_ext_Serializing(w, ext) == serialize_ext(w, ext)
Sealed_write_ext(w, ext) == Ok(w)
Sealed_try_read_ext(d, marker, outcome) == [der |-> d, kind |-> "None", val |-> 0, err |-> "none"]

\* ---- DefaultConfig ----
DefaultConfig_write_struct_len(w, len) == write_array_len(w, AsU32(len))
DefaultConfig_write_struct_field(w, key, value) == serialize_value(w, value)
\* the variant written as its index
DefaultConfig_write_variant_ident_Index(w, variant_index, variant) ==
  SinkWrite(w, Tok("int", NoCount, variant_index, ""))
DefaultConfig_write_variant_ident(w, variant_index, variant) == serialize_str(w, variant)
DefaultConfig_is_human_readable == FALSE

\* ---- StructMapConfig<C> ----
StructMapConfig_write_struct_len(C, w, len) == write_map_len(w, AsU32(len))
\* the field handed to the wrapped configuration
StructMapConfig_write_struct_field_Delegating(C, w, key, value) == write_struct_field(C, w, key, value)
\* the result of the key write dropped
StructMapConfig_write_struct_field_KeyErrorDropped(C, w, key, value) ==
  serialize_value(write_str(w, key).ser, value)
StructMapConfig_write_struct_field(C, w, key, value) ==
  LET r == write_str(w, key)
  IN IF r.ok THEN serialize_value(r.ser, value) ELSE r
StructMapConfig_write_variant_ident(C, w, variant_index, variant) == write_variant_ident(C, w, variant_index, variant)
StructMapConfig_is_human_readable(C) == is_human_readable(C)
StructMapConfig_write_ext(C, w, ext) == write_ext(C, w, ext)
StructMapConfig_try_read_ext(C, d, marker, outcome) == try_read_ext(C, d, marker, outcome)

\* ---- StructTupleConfig<C> ----
StructTupleConfig_write_struct_len(C, w, len) == write_array_len(w, AsU32(len))
StructTupleConfig_write_struct_field(C, w, key, value) == serialize_value(w, value)
StructTupleConfig_write_variant_ident(C, w, variant_index, variant) == write_variant_ident(C, w, variant_index, variant)
StructTupleConfig_is_human_readable(C) == is_human_readable(C)
StructTupleConfig_write_ext(C, w, ext) == write_ext(C, w, ext)
StructTupleConfig_try_read_ext(C, d, marker, outcome) == try_read_ext(C, d, marker, outcome)

\* ---- HumanReadableConfig<C> ----
HumanReadableConfig_write_struct_len(C, w, len) == write_struct_len(C, w, len)
HumanReadableConfig_write_struct_field(C, w, key, value) == write_struct_field(C, w, key, value)
HumanReadableConfig_write_variant_ident(C, w, variant_index, variant) == write_variant_ident(C, w, variant_index, variant)
HumanReadableConfig_is_human_readable(C) == TRUE
\* the hook left at the trait's default
HumanReadableConfig_write_ext_Default(C, w, ext) == Sealed_write_ext(w, ext)
HumanReadableConfig_write_ext(C, w, ext) == write_ext(C, w, ext)
HumanReadableConfig_try_read_ext(C, d, marker, outcome) == try_read_ext(C, d, marker, outcome)

\* ---- BinaryConfig<C> ----
BinaryConfig_write_struct_len(C, w, len) == write_struct_len(C, w, len)
BinaryConfig_write_struct_field(C, w, key, value) == write_struct_field(C, w, key, value)
BinaryConfig_write_variant_ident(C, w, variant_index, variant) == write_variant_ident(C, w, variant_index, variant)
\* the flag handed to the wrapped configuration
BinaryConfig_is_human_readable_Delegating(C) == is_human_readable(C)
BinaryConfig_is_human_readable(C) == FALSE
BinaryConfig_write_ext(C, w, ext) == write_ext(C, w, ext)
BinaryConfig_try_read_ext(C, d, marker, outcome) == try_read_ext(C, d, marker, outcome)

\* ---- ExtConfig<C, B> ----
\* Ext::deserialize(der): reads from the source; what it reads and whether the
\* bytes decode is the input's doing, given here as outcome = [ok, adv, tag, err]
Ext_deserialize(d, outcome) ==
  IF outcome.ok
    THEN [der |-> [d EXCEPT !.cursor = @ + outcome.adv], kind |-> "Ok", val |-> outcome.tag, err |-> "none"]
    ELSE [der |-> [d EXCEPT !.cursor = @ + outcome.adv], kind |-> "Err", val |-> 0, err |-> outcome.err]

\* .map(Some)
MapSome(r) == IF r.kind = "Ok" THEN [r EXCEPT !.kind = "Some"] ELSE r

\* the list with one marker forgotten
MatchesExt_NoFixExt16(marker) ==
  marker \in {"FixExt1", "FixExt2", "FixExt4", "FixExt8", "Ext8", "Ext16", "Ext32"}

MatchesExt(marker) ==
  marker \in {"FixExt1", "FixExt2", "FixExt4", "FixExt8", "FixExt16", "Ext8", "Ext16", "Ext32"}

ExtConfig_write_struct_len(C, w, len) == write_struct_len(C, w, len)
ExtConfig_write_struct_field(C, w, key, value) == write_struct_field(C, w, key, value)
ExtConfig_write_variant_ident(C, w, variant_index, variant) == write_variant_ident(C, w, variant_index, variant)
ExtConfig_is_human_readable(C) == is_human_readable(C)
ExtConfig_write_ext(C, w, ext) == serialize_ext(w, ext)
\* the envelope decoded whatever the marker
ExtConfig_try_read_ext_Unconditional(C, d, marker, outcome) == MapSome(Ext_deserialize(d, outcome))
ExtConfig_try_read_ext(C, d, marker, outcome) ==
  IF MatchesExt(marker)
    THEN MapSome(Ext_deserialize(d, outcome))
    ELSE [der |-> d, kind |-> "None", val |-> 0, err |-> "none"]

\* ---- static dispatch: <Cfg as sealed::SerializerConfig>::hook ----
write_struct_len(Cfg, w, len) ==
  IF Cfg = <<>> THEN DefaultConfig_write_struct_len(w, len)
  ELSE CASE Head(Cfg) = "StructMapConfig" -> StructMapConfig_write_struct_len(Tail(Cfg), w, len)
         [] Head(Cfg) = "StructTupleConfig" -> StructTupleConfig_write_struct_len(Tail(Cfg), w, len)
         [] Head(Cfg) = "HumanReadableConfig" -> HumanReadableConfig_write_struct_len(Tail(Cfg), w, len)
         [] Head(Cfg) = "BinaryConfig" -> BinaryConfig_write_struct_len(Tail(Cfg), w, len)
         [] Head(Cfg) = "ExtConfig" -> ExtConfig_write_struct_len(Tail(Cfg), w, len)

write_struct_field(Cfg, w, key, value) ==
  IF Cfg = <<>> THEN DefaultConfig_write_struct_field(w, key, value)
  ELSE CASE Head(Cfg) = "StructMapConfig" -> StructMapConfig_write_struct_field(Tail(Cfg), w, key, value)
         [] Head(Cfg) = "StructTupleConfig" -> StructTupleConfig_write_struct_field(Tail(Cfg), w, key, value)
         [] Head(Cfg) = "HumanReadableConfig" -> HumanReadableConfig_write_struct_field(Tail(Cfg), w, key, value)
         [] Head(Cfg) = "BinaryConfig" -> BinaryConfig_write_struct_field(Tail(Cfg), w, key, value)
         [] Head(Cfg) = "ExtConfig" -> ExtConfig_write_struct_field(Tail(Cfg), w, key, value)

write_variant_ident(Cfg, w, variant_index, variant) ==
  IF Cfg = <<>> THEN DefaultConfig_write_variant_ident(w, variant_index, variant)
  ELSE CASE Head(Cfg) = "StructMapConfig" -> StructMapConfig_write_variant_ident(Tail(Cfg), w, variant_index, variant)
         [] Head(Cfg) = "StructTupleConfig" -> StructTupleConfig_write_variant_ident(Tail(Cfg), w, variant_index, variant)
         [] Head(Cfg) = "HumanReadableConfig" -> HumanReadableConfig_write_variant_ident(Tail(Cfg), w, variant_index, variant)
         [] Head(Cfg) = "BinaryConfig" -> BinaryConfig_write_variant_ident(Tail(Cfg), w, variant_index, variant)
         [] Head(Cfg) = "ExtConfig" -> ExtConfig_write_variant_ident(Tail(Cfg), w, variant_index, variant)

is_human_readable(Cfg) ==
  IF Cfg = <<>> THEN DefaultConfig_is_human_readable
  ELSE CASE Head(Cfg) = "StructMapConfig" -> StructMapConfig_is_human_readable(Tail(Cfg))
         [] Head(Cfg) = "StructTupleConfig" -> StructTupleConfig_is_human_readable(Tail(Cfg))
         [] Head(Cfg) = "HumanReadableConfig" -> HumanReadableConfig_is_human_readable(Tail(Cfg))
         [] Head(Cfg) = "BinaryConfig" -> BinaryConfig_is_human_readable(Tail(Cfg))
         [] Head(Cfg) = "ExtConfig" -> ExtConfig_is_human_readable(Tail(Cfg))

write_ext(Cfg, w, ext) ==
  IF Cfg = <<>> THEN Sealed_write_ext(w, ext)
  ELSE CASE Head(Cfg) = "StructMapConfig" -> StructMapConfig_write_ext(Tail(Cfg), w, ext)
         [] Head(Cfg) = "StructTupleConfig" -> StructTupleConfig_write_ext(Tail(Cfg), w, ext)
         [] Head(Cfg) = "HumanReadableConfig" -> HumanReadableConfig_write_ext(Tail(Cfg), w, ext)
         [] Head(Cfg) = "BinaryConfig" -> BinaryConfig_write_ext(Tail(Cfg), w, ext)
         [] Head(Cfg) = "ExtConfig" -> ExtConfig_write_ext(Tail(Cfg), w, ext)

try_read_ext(Cfg, d, marker, outcome) ==
  IF Cfg = <<>> THEN Sealed_try_read_ext(d, marker, outcome)
  ELSE CASE Head(Cfg) = "StructMapConfig" -> StructMapConfig_try_read_ext(Tail(Cfg), d, marker, outcome)
         [] Head(Cfg) = "StructTupleConfig" -> StructTupleConfig_try_read_ext(Tail(Cfg), d, marker, outcome)
         [] Head(Cfg) = "HumanReadableConfig" -> HumanReadableConfig_try_read_ext(Tail(Cfg), d, marker, outcome)
         [] Head(Cfg) = "BinaryConfig" -> BinaryConfig_try_read_ext(Tail(Cfg), d, marker, outcome)
         [] Head(Cfg) = "ExtConfig" -> ExtConfig_try_read_ext(Tail(Cfg), d, marker, outcome)

\* ---- state ----
NoOutcome == [ok |-> FALSE, adv |-> 0, tag |-> 0, err |-> "none"]

NoCall == [hook |-> "none", len |-> <<0, 0, 0, 0>>, key |-> "", value |-> 0,
           variant_index |-> 0, variant |-> "", ext |-> 0, marker |-> "",
           outcome |-> NoOutcome, preSink |-> 0, preCursor |-> 0, preFailAt |-> -1]
NoRet == [ok |-> TRUE, err |-> "none", kind |-> "none", val |-> 0, flag |-> FALSE]

\* the call about to be made, with the state it finds
Entry == [NoCall EXCEPT !.preSink = Len(ser.sink), !.preCursor = der.cursor, !.preFailAt = ser.failAt]

WriteRet(r) == [NoRet EXCEPT !.ok = r.ok, !.err = r.err]
ReadRet(r) == [NoRet EXCEPT !.ok = (r.kind # "Err"), !.err = r.err, !.kind = r.kind, !.val = r.val]

\* what Ext::deserialize can find in the source: an envelope, or bytes that do not decode
Outcomes == [ok : {TRUE}, adv : {1, 2}, tag : ExtTags, err : {"none"}]
              \cup [ok : {FALSE}, adv : {0, 1}, tag : {0}, err : DecodeErrors]

Init ==
  /\ config = <<>>
  /\ op = "build"
  /\ ser \in [sink : {<<>>}, failAt : (-1)..MaxSink, sinkErr : SinkErrors, attempts : {0}]
  /\ der = [cursor |-> 0]
  /\ call = NoCall
  /\ ret = NoRet

\* ---- the constructors: the configuration is composed before an engine holds it ----
Wrap(name) ==
  /\ op = "build"
  /\ Len(config) < MaxDepth
  /\ config' = <<name>> \o config
  /\ UNCHANGED <<op, ser, der, call, ret>>

StructMapConfig_new == Wrap("StructMapConfig")
StructTupleConfig_new == Wrap("StructTupleConfig")
HumanReadableConfig_new == Wrap("HumanReadableConfig")
BinaryConfig_new == Wrap("BinaryConfig")
ExtConfig_new == Wrap("ExtConfig")

\* ---- the engine calling the hooks of the configuration it holds ----
\* a configuration is held by a Serializer (ser: &mut S) or by a Deserializer (der: &mut D)
HeldBy(engine) == op \in {"build", engine} /\ op' = engine

Fresh == [ser EXCEPT !.attempts = 0]

\* a Deserializer has no sink
NoSer == [sink |-> <<>>, failAt |-> -1, sinkErr |-> "none", attempts |-> 0]

Call_write_struct_len ==
  /\ HeldBy("encode")
  /\ Len(ser.sink) < MaxSink
  /\ \E len \in Lens :
       LET r == write_struct_len(config, Fresh, len) IN
       /\ ser' = r.ser
       /\ call' = [Entry EXCEPT !.hook = "write_struct_len", !.len = len]
       /\ ret' = WriteRet(r)
  /\ UNCHANGED <<config, der>>

Call_write_struct_field ==
  /\ HeldBy("encode")
  /\ Len(ser.sink) < MaxSink
  /\ \E key \in Keys, value \in Values :
       LET r == write_struct_field(config, Fresh, key, value) IN
       /\ ser' = r.ser
       /\ call' = [Entry EXCEPT !.hook = "write_struct_field", !.key = key, !.value = value]
       /\ ret' = WriteRet(r)
  /\ UNCHANGED <<config, der>>

Call_write_variant_ident ==
  /\ HeldBy("encode")
  /\ Len(ser.sink) < MaxSink
  /\ \E variant_index \in VariantIndexes, variant \in VariantNames :
       LET r == write_variant_ident(config, Fresh, variant_index, variant) IN
       /\ ser' = r.ser
       /\ call' = [Entry EXCEPT !.hook = "write_variant_ident",
                                !.variant_index = variant_index, !.variant = variant]
       /\ ret' = WriteRet(r)
  /\ UNCHANGED <<config, der>>

Call_is_human_readable ==
  /\ \E engine \in {"encode", "decode"} :
       /\ HeldBy(engine)
       /\ ser' = IF engine = "encode" THEN Fresh ELSE NoSer
  /\ call' = [Entry EXCEPT !.hook = "is_human_readable"]
  /\ ret' = [NoRet EXCEPT !.flag = is_human_readable(config)]
  /\ UNCHANGED <<config, der>>

Call_write_ext ==
  /\ HeldBy("encode")
  /\ Len(ser.sink) < MaxSink
  /\ \E ext \in ExtTags :
       LET r == write_ext(config, Fresh, ext) IN
       /\ ser' = r.ser
       /\ call' = [Entry EXCEPT !.hook = "write_ext", !.ext = ext]
       /\ ret' = WriteRet(r)
  /\ UNCHANGED <<config, der>>

Call_try_read_ext ==
  /\ HeldBy("decode")
  /\ der.cursor < MaxCursor
  /\ \E marker \in Markers, outcome \in Outcomes :
       LET r == try_read_ext(config, der, marker, outcome) IN
       /\ der' = r.der
       /\ call' = [Entry EXCEPT !.hook = "try_read_ext", !.marker = marker, !.outcome = outcome]
       /\ ret' = ReadRet(r)
  /\ ser' = NoSer
  /\ UNCHANGED config

Next ==
  \/ StructMapConfig_new
  \/ StructTupleConfig_new
  \/ HumanReadableConfig_new
  \/ BinaryConfig_new
  \/ ExtConfig_new
  \/ Call_write_struct_len
  \/ Call_write_struct_field
  \/ Call_write_variant_ident
  \/ Call_is_human_readable
  \/ Call_write_ext
  \/ Call_try_read_ext

Spec == Init /\ [][Next]_vars

\* ---- vocabulary of the properties ----
ShapeWrappers == {"StructMapConfig", "StructTupleConfig"}
ModeWrappers == {"HumanReadableConfig", "BinaryConfig"}
WritingHooks == {"write_struct_len", "write_struct_field", "write_variant_ident", "write_ext"}

\* the outermost wrapper of the chain that belongs to a family, "none" if the chain has none
Outermost(Cfg, family) ==
  LET at == {i \in 1..Len(Cfg) : Cfg[i] \in family}
  IN IF at = {} THEN "none" ELSE Cfg[CHOOSE i \in at : \A j \in at : i <= j]

MapShaped(Cfg) == Outermost(Cfg, ShapeWrappers) = "StructMapConfig"
HasExt(Cfg) == \E i \in 1..Len(Cfg) : Cfg[i] = "ExtConfig"

\* the hooks a wrapper answers itself
Overrides(wrapper) ==
  CASE wrapper \in ShapeWrappers -> {"write_struct_len", "write_struct_field"}
    [] wrapper \in ModeWrappers -> {"is_human_readable"}
    [] wrapper = "ExtConfig" -> {"write_ext", "try_read_ext"}

\* what the last call put into the sink, and the serializer and deserializer it started from
Written == SubSeq(ser.sink, call.preSink + 1, Len(ser.sink))
PreSer == [sink |-> SubSeq(ser.sink, 1, call.preSink), failAt |-> call.preFailAt,
           sinkErr |-> ser.sinkErr, attempts |-> 0]
PreDer == [cursor |-> call.preCursor]

FitsU32(len) == \A i \in 1..(UsizeLimbs - U32Limbs) : len[i] = 0

KeyTok == Tok("str", NoCount, 0, call.key)
ValueTok == Tok("value", NoCount, call.value, "")

\* C1: the record hooks follow the outermost shape wrapper: under a map-shaped chain
\* write_struct_len emits a map header and write_struct_field the key as a string and then
\* the value; under every other chain write_struct_len emits an array header and
\* write_struct_field the value alone and never the key.
C1_OutermostShapeDecides ==
  /\ (call.hook = "write_struct_len" /\ ret.ok) =>
       /\ Len(Written) = 1
       /\ Written[1].t = (IF MapShaped(config) THEN "map" ELSE "array")
       /\ FitsU32(call.len) => U32AsUsize(Written[1].cnt) = call.len
  /\ (call.hook = "write_struct_field" /\ ret.ok) =>
       Written = (IF MapShaped(config) THEN <<KeyTok, ValueTok>> ELSE <<ValueTok>>)
  /\ (call.hook = "write_struct_field" /\ ~MapShaped(config)) =>
       \A i \in 1..Len(Written) : Written[i].t # "str"

C1_Witness ==
  /\ config = <<"StructMapConfig", "StructTupleConfig">>
  /\ call.hook = "write_struct_field"
  /\ ret.ok
  /\ Written = <<KeyTok, ValueTok>>

\* C2: is_human_readable returns true exactly when the outermost mode wrapper of the chain
\* is HumanReadableConfig; a chain without a mode wrapper returns false.
C2_OutermostModeDecides ==
  call.hook = "is_human_readable" =>
    (ret.flag <=> Outermost(config, ModeWrappers) = "HumanReadableConfig")

C2_Witness ==
  /\ config = <<"BinaryConfig", "HumanReadableConfig">>
  /\ call.hook = "is_human_readable"
  /\ ~ret.flag

\* C3: a hook the outermost wrapper does not override gives the result and the output the
\* same call gives on the wrapped configuration, and an ExtConfig anywhere in the chain
\* handles the extensions of the whole chain.
C3_DelegatesVerbatim ==
  /\ (config # <<>> /\ call.hook \in WritingHooks \ Overrides(Head(config))) =>
       LET inner ==
             CASE call.hook = "write_struct_len" -> write_struct_len(Tail(config), PreSer, call.len)
               [] call.hook = "write_struct_field" -> write_struct_field(Tail(config), PreSer, call.key, call.value)
               [] call.hook = "write_variant_ident" -> write_variant_ident(Tail(config), PreSer, call.variant_index, call.variant)
               [] call.hook = "write_ext" -> write_ext(Tail(config), PreSer, call.ext)
       IN ser = inner.ser /\ ret = WriteRet(inner)
  /\ (config # <<>> /\ call.hook = "is_human_readable" /\ Head(config) \notin ModeWrappers) =>
       ret.flag = is_human_readable(Tail(config))
  /\ (config # <<>> /\ call.hook = "try_read_ext" /\ Head(config) # "ExtConfig") =>
       LET inner == try_read_ext(Tail(config), PreDer, call.marker, call.outcome)
       IN der = inner.der /\ ret = ReadRet(inner)
  /\ (HasExt(config) /\ call.hook = "write_ext" /\ ret.ok) =>
       Written = <<Tok("ext", NoCount, call.ext, "")>>
  /\ (HasExt(config) /\ call.hook = "try_read_ext" /\ call.marker \in ExtMarkers) =>
       ret.kind # "None"

C3_Witness ==
  /\ config = <<"HumanReadableConfig", "ExtConfig">>
  /\ call.hook = "write_ext"
  /\ ret.ok
  /\ Written = <<Tok("ext", NoCount, call.ext, "")>>

\* C4: under a chain with an ExtConfig, try_read_ext with a marker outside the extension
\* family returns Ok(None) and leaves the cursor where it was.
C4_NonExtMarkerNotHandled ==
  (call.hook = "try_read_ext" /\ HasExt(config) /\ call.marker \notin ExtMarkers) =>
    /\ ret.ok
    /\ ret.kind = "None"
    /\ der.cursor = call.preCursor

C4_Witness ==
  /\ HasExt(config)
  /\ call.hook = "try_read_ext"
  /\ call.marker = "FixStr"
  /\ call.preCursor > 0
  /\ ret.kind = "None"
  /\ der.cursor = call.preCursor

\* C5: under a chain with an ExtConfig, try_read_ext handles exactly the eight markers of
\* the extension family: for each of them it returns the decoded envelope as Ok(Some) when
\* decoding succeeds and the decode error unchanged when it fails, never Ok(None).
C5_ExtMarkersDecodedOrError ==
  /\ Cardinality(ExtMarkers) = 8
  /\ (call.hook = "try_read_ext" /\ HasExt(config)) =>
       /\ call.marker \in ExtMarkers <=> ret.kind # "None"
       /\ (call.marker \in ExtMarkers /\ call.outcome.ok) =>
            ret.ok /\ ret.kind = "Some" /\ ret.val = call.outcome.tag
       /\ (call.marker \in ExtMarkers /\ ~call.outcome.ok) =>
            ~ret.ok /\ ret.kind = "Err" /\ ret.err = call.outcome.err

C5_Witness ==
  /\ HasExt(config)
  /\ call.hook = "try_read_ext"
  /\ call.marker = "FixExt16"
  /\ ret.kind = "Err"
  /\ ret.err = "BADTYPE"

\* C6: under a chain without an ExtConfig the extension hooks do nothing: write_ext
\* succeeds without attempting a write, and try_read_ext returns Ok(None) for every
\* marker without moving the cursor.
C6_NoExtConfigNoOp ==
  /\ (call.hook = "write_ext" /\ ~HasExt(config)) =>
       ret.ok /\ Written = <<>> /\ ser.attempts = 0 /\ ser.failAt = call.preFailAt
  /\ (call.hook = "try_read_ext" /\ ~HasExt(config)) =>
       ret.ok /\ ret.kind = "None" /\ der.cursor = call.preCursor

C6_Witness ==
  /\ config = <<"StructMapConfig", "HumanReadableConfig">>
  /\ call.hook = "try_read_ext"
  /\ call.marker = "Ext8"
  /\ call.outcome.ok
  /\ ret.kind = "None"

C8_DefaultVariantAsInteger ==
  (call.hook = "write_variant_ident" /\ config = <<>> /\ ret.ok) =>
    /\ Len(Written) = 1
    /\ Written[1].t = "int"
    /\ Written[1].n = call.variant_index

\* C9: a writing hook whose sink fails returns the sink's error and attempts no write after
\* the failure; a map-shaped write_struct_field whose key write fails does not write the value.
C9_SinkFailurePropagated ==
  call.hook \in WritingHooks =>
    /\ ~ret.ok => (ret.err = ser.sinkErr /\ ser.attempts = Len(Written) + 1)
    /\ ret.ok => (ret.err = "none" /\ ser.attempts = Len(Written))
    /\ (call.hook = "write_struct_field" /\ MapShaped(config)) =>
         Written \in {<<>>, <<KeyTok>>, <<KeyTok, ValueTok>>}

C9_Witness ==
  /\ config = <<"HumanReadableConfig", "StructMapConfig">>
  /\ call.hook = "write_struct_field"
  /\ ~ret.ok
  /\ ret.err = "EFULL"
  /\ Written = <<>>
  /\ ser.attempts = 1

\* C10: the count in the header write_struct_len writes equals the length it was given,
\* for every length of the platform word size.
C10_HeaderCountIsLen ==
  (call.hook = "write_struct_len" /\ ret.ok) =>
    /\ Len(Written) = 1
    /\ U32AsUsize(Written[1].cnt) = call.len
====
